---------------------------- MODULE Spec2Model ----------------------------
(***************************************************************************)
(* A model of JsonApiQueryParser (src/src/JsonApiQueryParser.js, the       *)
(* current version, lines 1-395).                                          *)
(*                                                                         *)
(* A JavaScript string is a sequence of one-character strings, so that the *)
(* regular expressions of PARSE_PARAM, split, replace and                  *)
(* decodeURIComponent are computed character by character.  A JavaScript   *)
(* value is a record [t |-> tag, v |-> payload].                           *)
(***************************************************************************)
EXTENDS Integers, Sequences, FiniteSets, TLC

VARIABLES
    requestData,   \* the descriptor object the caller holds
    realm,         \* what the calls have written on the shared built-in objects
    history,       \* the calls made on requestData since it was created
    ret            \* how the last call ended: [thrown, value]

vars == <<requestData, realm, history, ret>>

---------------------------------------------------------------------------
(* Characters and strings *)

Uppers == <<"A","B","C","D","E","F","G","H","I","J","K","L","M",
            "N","O","P","Q","R","S","T","U","V","W","X","Y","Z">>
Lowers == <<"a","b","c","d","e","f","g","h","i","j","k","l","m",
            "n","o","p","q","r","s","t","u","v","w","x","y","z">>

\* One character of String.prototype.toLowerCase, and of the i flag's folding.
ToLowerChar(c) ==
    IF \E i \in 1..26 : Uppers[i] = c
    THEN Lowers[CHOOSE i \in 1..26 : Uppers[i] = c]
    ELSE c

toLowerCase(s) == [i \in 1..Len(s) |-> ToLowerChar(s[i])]

\* The characters the pattern character . does not match.
LineTerminators == {"\n", "\r"}

IsDot(c) == c \notin LineTerminators

\* s[from..] consists of characters . matches.
AllDot(s, from) == \A i \in from..Len(s) : IsDot(s[i])

Digits == {"0","1","2","3","4","5","6","7","8","9"}

\* s starts with the literal lit (given in lower case), letters compared as
\* the i flag compares them.
StartsWithCI(s, lit) ==
    /\ Len(s) >= Len(lit)
    /\ \A i \in 1..Len(lit) : ToLowerChar(s[i]) = lit[i]

\* The indexes i >= from where the two characters a, b stand at i, i+1.
PairAt(s, from, a, b) ==
    {i \in from..(Len(s) - 1) : s[i] = a /\ s[i + 1] = b}

\* The indexes i >= from where the character a stands.
CharAt(s, from, a) == {i \in from..Len(s) : s[i] = a}

Min(S) == CHOOSE i \in S : \A j \in S : i <= j

\* The element of a set of one element: Only({e(x) : x \in {d}}) is e(x) for
\* x the value of d, which is computed once.
Only(S) == CHOOSE x \in S : TRUE

Tail0(s, from) == SubSeq(s, from, Len(s))

\* String.prototype.split with a one-character separator.
RECURSIVE Split(_, _)
Split(s, sep) ==
    LET at == CharAt(s, 1, sep)
    IN  IF at = {} THEN <<s>>
        ELSE <<SubSeq(s, 1, Min(at) - 1)>> \o Split(Tail0(s, Min(at) + 1), sep)

\* Array.prototype.join.
RECURSIVE Join(_, _)
Join(parts, sep) ==
    IF Len(parts) = 0 THEN <<>>
    ELSE IF Len(parts) = 1 THEN parts[1]
    ELSE parts[1] \o <<sep>> \o Join(Tail(parts), sep)

\* n copies of the character c.
Repeat(c, n) == [i \in 1..n |-> c]

---------------------------------------------------------------------------
(* JavaScript values *)

Str(s) == [t |-> "str", v |-> s]      \* a string primitive
Obj(m) == [t |-> "obj", v |-> m]      \* a plain object: own key -> value
List(a) == [t |-> "list", v |-> a]    \* an array of strings
Arr(a) == [t |-> "arr", v |-> a]      \* an array with holes: index -> value
Fn(n) == [t |-> "fn", v |-> n]        \* a built-in function object
Null == [t |-> "null", v |-> <<>>]
Undefined == [t |-> "undef", v |-> <<>>]
\* A reference to Object.prototype.
ObjectPrototype == [t |-> "proto", v |-> <<>>]

EmptyMap == <<>>

\* m with key k set to value x.
Put(m, k, x) == (k :> x) @@ m

Has(m, k) == k \in DOMAIN m

\* ToBoolean.
Truthy(x) ==
    CASE x.t = "undef" -> FALSE
      [] x.t = "null" -> FALSE
      [] x.t = "str" -> x.v # <<>>
      [] OTHER -> TRUE

k__proto__ == <<"_","_","p","r","o","t","o","_","_">>
kconstructor == <<"c","o","n","s","t","r","u","c","t","o","r">>
khasOwnProperty == <<"h","a","s","O","w","n","P","r","o","p","e","r","t","y">>
ktoString == <<"t","o","S","t","r","i","n","g">>
kkeys == <<"k","e","y","s">>

\* The methods every object inherits from Object.prototype that the model
\* tells apart by name.
BuiltinNames == {kconstructor, khasOwnProperty, ktoString}

\* The shared built-in objects as the program starts: nothing written on them.
PristineRealm ==
    [objectPrototype |-> EmptyMap,
     builtins |-> [n \in BuiltinNames |-> EmptyMap]]

\* The value a property read finds on Object.prototype.
Inherited(k, rlm) ==
    IF k = k__proto__ THEN ObjectPrototype
    ELSE IF Has(rlm.objectPrototype, k) THEN rlm.objectPrototype[k]
    ELSE IF k \in BuiltinNames THEN Fn(k)
    ELSE Undefined

\* obj[k] for a plain object with own properties m.
Get(m, k, rlm) == IF Has(m, k) THEN m[k] ELSE Inherited(k, rlm)

\* m after obj[k] = x on a plain object: the __proto__ setter ignores a
\* primitive, and setting the prototype the object already has changes nothing.
Set(m, k, x) == IF k = k__proto__ THEN m ELSE Put(m, k, x)

---------------------------------------------------------------------------
(* trimSlashes *)

\* A slashPattern that forgets the trailing slash: /^\//.
SlashPatternTestLeadingOnly(s) == Len(s) > 0 /\ s[1] = "/"

\* slashPattern.test: a leading or a trailing slash.
SlashPatternTest(s) == Len(s) > 0 /\ (s[1] = "/" \/ s[Len(s)] = "/")

\* input.replace(slashPattern, ''): the first match only, the leading slash
\* when there is one.
SlashPatternReplace(s) ==
    IF Len(s) > 0 /\ s[1] = "/" THEN Tail(s)
    ELSE IF Len(s) > 0 /\ s[Len(s)] = "/" THEN SubSeq(s, 1, Len(s) - 1)
    ELSE s

\* A trimSlashes that does not run again on its result.
trimSlashesOnce(input) == SlashPatternReplace(input)

RECURSIVE trimSlashes(_)
trimSlashes(input) ==
    LET trimmed == SlashPatternReplace(input)
    IN  IF SlashPatternTest(trimmed) THEN trimSlashes(trimmed) ELSE trimmed

---------------------------------------------------------------------------
(* The descriptor *)

klike == <<"l","i","k","e">>
knot == <<"n","o","t">>
klt == <<"l","t">>
klte == <<"l","t","e">>
kgt == <<"g","t">>
kgte == <<"g","t","e">>
kor == <<"o","r">>

\* The six operator maps, in the order the object literals create them.
OperatorNames == <<klike, knot, klt, klte, kgt, kgte>>

OperatorSet == {OperatorNames[i] : i \in 1..Len(OperatorNames)}

\* subFilterInitialSet.filter of parseFilterWithOr: six empty maps, no or.
SubFilterInitial == [k \in OperatorSet |-> Obj(EmptyMap)]

\* requestData.queryData.filter of parseRequest: or [] and six empty maps.
FilterInitial == Put(SubFilterInitial, kor, Arr(EmptyMap))

\* requestData.queryData as parseRequest creates it.
EmptyQueryData ==
    [include |-> <<>>, fields |-> EmptyMap, sort |-> <<>>, page |-> EmptyMap,
     filter |-> FilterInitial]

\* requestData as parseRequest creates it.
FreshRequestData ==
    [resourceType |-> Null, identifier |-> Null, relationships |-> FALSE,
     relationshipType |-> Null, queryData |-> EmptyQueryData]

---------------------------------------------------------------------------
(* parseEndpoint *)

krelationships == <<"r","e","l","a","t","i","o","n","s","h","i","p","s">>

\* The decimal digits of a small array index, as a property key.
DigitChars == <<"0","1","2","3","4","5","6","7","8","9">>

RECURSIVE DecimalString(_)
DecimalString(n) ==
    IF n < 10 THEN <<DigitChars[n + 1]>>
    ELSE DecimalString(n \div 10) \o <<DigitChars[(n % 10) + 1]>>

\* a[i] for an array of strings a and a 0-based index i: an index past the end
\* is looked up on the prototype chain.
ArrayGet(a, i, rlm) ==
    IF i < Len(a) THEN Str(a[i + 1]) ELSE Inherited(DecimalString(i), rlm)

\* A comparison of the third segment as it is written.
IsRelationshipsCased(requestSplit) ==
    Len(requestSplit) >= 3 /\ requestSplit[3] = krelationships

\* requestSplit.length >= 3 && requestSplit[2].toLowerCase() === 'relationships'
IsRelationships(requestSplit) ==
    Len(requestSplit) >= 3 /\ toLowerCase(requestSplit[3]) = krelationships

\* A third segment taken from every path of three segments or more.
PlainRelationshipTypeFrom3(requestSplit) ==
    IF Len(requestSplit) >= 3 THEN Str(requestSplit[3]) ELSE Null

\* requestSplit.length === 3 ? requestSplit[2] : null
PlainRelationshipType(requestSplit) ==
    IF Len(requestSplit) = 3 THEN Str(requestSplit[3]) ELSE Null

\* parseEndpoint: the object it mutates, and what it throws.  The three first
\* fields are written before the check that throws.
parseEndpoint(endpointString, requestObject, rlm) ==
    LET requestSplit == Split(trimSlashes(endpointString), "/")
        written ==
            [requestObject EXCEPT
                !.resourceType = Str(requestSplit[1]),
                !.identifier = IF Len(requestSplit) >= 2
                               THEN Str(requestSplit[2]) ELSE Null,
                !.relationships = IsRelationships(requestSplit)]
        fourth == ArrayGet(requestSplit, 3, rlm)
    IN  IF written.relationships
        THEN IF ~Truthy(fourth)
             THEN [data |-> written, thrown |-> "ReferenceError"]
             ELSE [data |-> [written EXCEPT !.relationshipType = fourth],
                   thrown |-> "none"]
        ELSE [data |-> [written EXCEPT !.relationshipType =
                            PlainRelationshipType(requestSplit)],
              thrown |-> "none"]

---------------------------------------------------------------------------
(* PARSE_PARAM: the seven patterns, and the groups replace extracts *)

kincludeEq == <<"i","n","c","l","u","d","e","=">>
ksortEq == <<"s","o","r","t","=">>
kfields == <<"f","i","e","l","d","s">>
kpage == <<"p","a","g","e">>
kfilter == <<"f","i","l","t","e","r">>
kfilterOr == <<"f","i","l","t","e","r","[","o","r","]","[">>

\* /^include\=(.*?)/i
TestParseInclude(q) == StartsWithCI(q, kincludeEq)

\* /^sort\=(.*?)/i
TestParseSort(q) == StartsWithCI(q, ksortEq)

\* /^kw\[(.*?)\]\=.*?$/i for kw fields or page: where the lazy group ends,
\* the first "]=" after the opening bracket; no line terminator may follow kw[.
BracketKeyEnds(q, kw) == PairAt(q, Len(kw) + 2, "]", "=")

TestBracketKey(q, kw) ==
    /\ StartsWithCI(q, kw \o <<"[">>)
    /\ BracketKeyEnds(q, kw) # {}
    /\ AllDot(q, Len(kw) + 2)

\* q.replace(pattern, $1): the group when the pattern matches, q itself when not.
BracketKeyGroup(q, kw) ==
    IF TestBracketKey(q, kw)
    THEN SubSeq(q, Len(kw) + 2, Min(BracketKeyEnds(q, kw)) - 1)
    ELSE q

\* /^fields\[(.*?)\]\=.*?$/i
TestParseFields(q) == TestBracketKey(q, kfields)

\* /^page\[(.*?)\]\=.*?$/i
TestParsePage(q) == TestBracketKey(q, kpage)

\* /^kw.*?\=(.*?)$/i (fieldNameRegex, pageValueRegex, filterNameRegex):
\* everything after the first = that follows kw.
TestValueRegex(q, kw) ==
    /\ StartsWithCI(q, kw)
    /\ CharAt(q, Len(kw) + 1, "=") # {}
    /\ AllDot(q, Len(kw) + 1)

ValueGroup(q, kw) ==
    IF TestValueRegex(q, kw)
    THEN Tail0(q, Min(CharAt(q, Len(kw) + 1, "=")) + 1)
    ELSE q

\* /^filter\[([^\]]*?)\]\=.*?$/i: the group ends at the first ], which = must
\* follow; the group may hold a line terminator, the value may not.
FilterClose(q) == CharAt(q, 8, "]")

TestParseFilter(q) ==
    /\ StartsWithCI(q, kfilter \o <<"[">>)
    /\ FilterClose(q) # {}
    /\ Min(FilterClose(q)) < Len(q)
    /\ q[Min(FilterClose(q)) + 1] = "="
    /\ AllDot(q, Min(FilterClose(q)) + 2)

FilterGroup(q) ==
    IF TestParseFilter(q) THEN SubSeq(q, 8, Min(FilterClose(q)) - 1) ELSE q

\* A class that excludes no character.
NotORExcludesNothing(c) == c \in {c}

\* [^or] under the i flag.
NotOR(c) == ToLowerChar(c) \notin {"o", "r"}

\* /^filter\[([^or].*?)\]\[(.*?)\]\=(.*?)$/i: group 1 starts with one character
\* that is not o or r and ends at the first "][" after it, group 2 ends at the
\* first "]=" after that, group 3 is the rest.
FilterTypeMid(q) == PairAt(q, 9, "]", "[")

FilterTypeEq(q) == PairAt(q, Min(FilterTypeMid(q)) + 2, "]", "=")

TestParseFilterType(q) ==
    /\ StartsWithCI(q, kfilter \o <<"[">>)
    /\ Len(q) >= 8
    /\ NotOR(q[8])
    /\ AllDot(q, 9)
    /\ FilterTypeMid(q) # {}
    /\ FilterTypeEq(q) # {}

FilterTypeGroup1(q) ==
    IF TestParseFilterType(q) THEN SubSeq(q, 8, Min(FilterTypeMid(q)) - 1) ELSE q

FilterTypeGroup2(q) ==
    IF TestParseFilterType(q)
    THEN SubSeq(q, Min(FilterTypeMid(q)) + 2, Min(FilterTypeEq(q)) - 1)
    ELSE q

FilterTypeGroup3(q) ==
    IF TestParseFilterType(q) THEN Tail0(q, Min(FilterTypeEq(q)) + 2) ELSE q

\* /^filter\[or\]\[(\d+)\](A|B){1}$/i with A = \[[^or].*?\]\[.*?\]\=.*? and
\* B = \[[^\]]*?\]\=.*? : the digits run up to a ], and the rest of the
\* fragment is group 2 when it matches A or B as a whole.
OrIndexEnd(q) ==
    Min({i \in 12..(Len(q) + 1) : i > Len(q) \/ q[i] \notin Digits})

OrRest(q) == Tail0(q, OrIndexEnd(q) + 1)

OrAlternativeA(r) ==
    /\ Len(r) >= 2
    /\ r[1] = "["
    /\ NotOR(r[2])
    /\ AllDot(r, 3)
    /\ PairAt(r, 3, "]", "[") # {}
    /\ PairAt(r, Min(PairAt(r, 3, "]", "[")) + 2, "]", "=") # {}

OrAlternativeB(r) ==
    /\ Len(r) >= 1
    /\ r[1] = "["
    /\ CharAt(r, 2, "]") # {}
    /\ Min(CharAt(r, 2, "]")) < Len(r)
    /\ r[Min(CharAt(r, 2, "]")) + 1] = "="
    /\ AllDot(r, Min(CharAt(r, 2, "]")) + 2)

TestParseFilterWithOr(q) ==
    /\ StartsWithCI(q, kfilterOr)
    /\ OrIndexEnd(q) > 12
    /\ OrIndexEnd(q) <= Len(q)
    /\ q[OrIndexEnd(q)] = "]"
    /\ (OrAlternativeA(OrRest(q)) \/ OrAlternativeB(OrRest(q)))

\* parseInt of a run of decimal digits.
RECURSIVE parseInt(_)
parseInt(d) ==
    IF Len(d) = 0 THEN 0
    ELSE 10 * parseInt(SubSeq(d, 1, Len(d) - 1))
         + (CHOOSE n \in 0..9 : DigitChars[n + 1] = d[Len(d)])

OrIndex(q) == parseInt(SubSeq(q, 12, OrIndexEnd(q) - 1))

---------------------------------------------------------------------------
(* The parsers.  Each takes the fragment, requestData.queryData and the    *)
(* realm, and yields [data, realm, thrown]: the object as the call leaves  *)
(* it, also when it throws.                                                *)

Done(d, rlm) == [data |-> d, realm |-> rlm, thrown |-> "none"]

Throw(d, rlm, e) == [data |-> d, realm |-> rlm, thrown |-> e]

\* includeString.split('=')[1].split(','): the text between the first and the
\* second =; without any = the second split is called on undefined.
SecondOfEqSplit(q) == Split(q, "=")[2]

\* A parseInclude that pushes onto the list it finds.
parseIncludeAppends(includeString, requestDataSubset, rlm) ==
    IF Len(Split(includeString, "=")) < 2
    THEN Throw(requestDataSubset, rlm, "TypeError")
    ELSE Done([requestDataSubset EXCEPT
                 !.include = @ \o Split(SecondOfEqSplit(includeString), ",")],
              rlm)

parseInclude(includeString, requestDataSubset, rlm) ==
    IF Len(Split(includeString, "=")) < 2
    THEN Throw(requestDataSubset, rlm, "TypeError")
    ELSE Done([requestDataSubset EXCEPT
                 !.include = Split(SecondOfEqSplit(includeString), ",")], rlm)

parseSort(sortString, requestDataSubset, rlm) ==
    IF Len(Split(sortString, "=")) < 2
    THEN Throw(requestDataSubset, rlm, "TypeError")
    ELSE Done([requestDataSubset EXCEPT
                 !.sort = Split(SecondOfEqSplit(sortString), ",")], rlm)

\* parseFields: fields[targetResource] becomes [] when the read finds nothing
\* truthy (own or inherited), and every value is pushed onto what is then read
\* there; only an array has push.
parseFields(fieldsString, requestDataSubset, rlm) ==
    LET targetResource == BracketKeyGroup(fieldsString, kfields)
        targetFields == Split(ValueGroup(fieldsString, kfields), ",")
        found == Get(requestDataSubset.fields, targetResource, rlm)
        kept == IF Truthy(found) THEN found ELSE List(<<>>)
        fields1 == Set(requestDataSubset.fields, targetResource, kept)
        target == Get(fields1, targetResource, rlm)
    IN  IF target.t = "list"
        THEN Done([requestDataSubset EXCEPT
                     !.fields = Set(fields1, targetResource,
                                    List(target.v \o targetFields))], rlm)
        ELSE Throw([requestDataSubset EXCEPT !.fields = fields1], rlm,
                   "TypeError")

parsePage(pageString, requestDataSubset, rlm) ==
    LET pageSettingKey == BracketKeyGroup(pageString, kpage)
        pageSettingValue == ValueGroup(pageString, kpage)
    IN  Done([requestDataSubset EXCEPT
                !.page = Set(@, pageSettingKey, Str(pageSettingValue))], rlm)

parseFilter(filterString, requestDataSubset, rlm) ==
    LET targetColumn == FilterGroup(filterString)
        targetFilterString == ValueGroup(filterString, kfilter)
    IN  Done([requestDataSubset EXCEPT
                !.filter = Set(@, targetColumn, Str(targetFilterString))], rlm)

\* The properties of a function object that cannot be assigned.
klength == <<"l","e","n","g","t","h">>
kname == <<"n","a","m","e">>
ReadOnlyFunctionKeys == {klength, kname}

\* parseFilterType: filter[targetType] is read through the prototype chain,
\* and when it is truthy the column is assigned on whatever was found: an own
\* operator map, a string (which throws in strict mode), Object.prototype or
\* a built-in function.
parseFilterType(filterString, requestDataSubset, rlm) ==
    LET targetType == FilterTypeGroup1(filterString)
        targetColumn == FilterTypeGroup2(filterString)
        value == Str(FilterTypeGroup3(filterString))
        holder == Get(requestDataSubset.filter, targetType, rlm)
    IN  IF ~Truthy(holder) THEN Done(requestDataSubset, rlm)
        ELSE CASE holder.t = "obj" ->
                    Done([requestDataSubset EXCEPT
                            !.filter = Put(@, targetType,
                                Obj(Set(holder.v, targetColumn, value)))], rlm)
               [] holder.t = "str" ->
                    Throw(requestDataSubset, rlm, "TypeError")
               [] holder.t = "proto" ->
                    Done(requestDataSubset,
                         [rlm EXCEPT !.objectPrototype =
                              Set(@, targetColumn, value)])
               [] holder.t = "fn" ->
                    IF targetColumn \in ReadOnlyFunctionKeys
                    THEN Throw(requestDataSubset, rlm, "TypeError")
                    ELSE Done(requestDataSubset,
                              [rlm EXCEPT !.builtins[holder.v] =
                                   Set(@, targetColumn, value)])
               [] OTHER -> Throw(requestDataSubset, rlm, "unmodelled")

---------------------------------------------------------------------------
(* deepMerge and parseFilterWithOr *)

\* A canonical array index as a property key: Object.keys lists such keys
\* first.
IndexLike(k) ==
    /\ Len(k) >= 1
    /\ \A i \in 1..Len(k) : k[i] \in Digits
    /\ (Len(k) = 1 \/ k[1] # "0")

\* A set of at most one key as a sequence.
AsSeq(S) == IF S = {} THEN <<>> ELSE <<CHOOSE k \in S : TRUE>>

\* Object.keys(source) for the objects deepMerge is given here: the six
\* operator maps in creation order and at most one more key, listed first
\* when it is an array index and last when it is not.
ObjectKeys(m) ==
    AsSeq({k \in DOMAIN m : IndexLike(k)})
    \o SelectSeq(OperatorNames, LAMBDA k : k \in DOMAIN m)
    \o AsSeq({k \in DOMAIN m : ~IndexLike(k) /\ k \notin OperatorSet})

\* deepMerge(target, source): [value, thrown], value being target as the call
\* leaves it.  Assigning a property on a string primitive or on null throws
\* in strict mode; hasOwnProperty and Object.keys are read where the call
\* finds them.  typeof null is 'object', so a null in source takes the
\* recursive branch, where Object.keys(null) throws.  (A property assigned
\* on an array target is not modelled.)
RECURSIVE deepMerge(_, _, _), MergeKeys(_, _, _, _)
MergeKeys(target, source, keys, rlm) ==
    IF keys = <<>> THEN [value |-> target, thrown |-> "none"]
    ELSE
      LET key == Head(keys)
          v == source[key]
      IN  IF target.t \in {"list", "arr"}
          THEN [value |-> target, thrown |-> "unmodelled"]
          ELSE IF target.t # "obj"
          THEN [value |-> target, thrown |-> "TypeError"]
          ELSE IF v.t = "null"
          THEN IF Get(target.v, khasOwnProperty, rlm).t # "fn"
               THEN [value |-> target, thrown |-> "TypeError"]
               ELSE [value |-> Obj(IF Has(target.v, key) THEN target.v
                                   ELSE Set(target.v, key, Obj(EmptyMap))),
                     thrown |-> "TypeError"]
          ELSE IF v.t = "obj"
          THEN IF Get(target.v, khasOwnProperty, rlm).t # "fn"
               THEN [value |-> target, thrown |-> "TypeError"]
               ELSE
                 LET t1 == IF Has(target.v, key) THEN target.v
                           ELSE Set(target.v, key, Obj(EmptyMap))
                     inner == deepMerge(Get(t1, key, rlm), v.v, rlm)
                     t2 == IF inner.value.t = "obj"
                           THEN Put(t1, key, inner.value) ELSE t1
                 IN  IF inner.thrown # "none"
                     THEN [value |-> Obj(t2), thrown |-> inner.thrown]
                     ELSE MergeKeys(Obj(t2), source, Tail(keys), rlm)
          ELSE MergeKeys(Obj(Set(target.v, key, v)), source, Tail(keys), rlm)

deepMerge(target, source, rlm) ==
    IF Has(rlm.builtins[kconstructor], kkeys)
    THEN [value |-> target, thrown |-> "TypeError"]
    ELSE MergeKeys(target, source, ObjectKeys(source), rlm)

\* parseFilterWithOr: the sub-fragment is parsed against a fresh filter of six
\* empty maps, and the result is assigned at or[index], or merged into what
\* is read there.
parseFilterWithOr(filterString, requestDataSubset, rlm) ==
    LET index == OrIndex(filterString)
        subFilterString == kfilter \o OrRest(filterString)
        subFilterInitialSet == [filter |-> SubFilterInitial]
        sub == IF TestParseFilter(subFilterString)
               THEN parseFilter(subFilterString, subFilterInitialSet, rlm)
               ELSE parseFilterType(subFilterString, subFilterInitialSet, rlm)
        filter == sub.data.filter
        or == Get(requestDataSubset.filter, kor, sub.realm)
        element == IF Has(or.v, index) THEN or.v[index]
                   ELSE Inherited(DecimalString(index), sub.realm)
        merged == deepMerge(element, filter, sub.realm)
    IN  IF sub.thrown # "none"
        THEN Throw(requestDataSubset, sub.realm, sub.thrown)
        ELSE CASE or.t = "arr" ->
                    IF element.t = "undef"
                    THEN Done([requestDataSubset EXCEPT
                                 !.filter = Put(@, kor,
                                     Arr(Put(or.v, index, Obj(filter))))],
                              sub.realm)
                    ELSE [data |-> IF Has(or.v, index)
                                   THEN [requestDataSubset EXCEPT
                                           !.filter = Put(@, kor,
                                             Arr(Put(or.v, index, merged.value)))]
                                   ELSE requestDataSubset,
                          realm |-> sub.realm,
                          thrown |-> merged.thrown]
               [] or.t = "str" ->
                    Throw(requestDataSubset, sub.realm, "TypeError")
               [] OTHER -> Throw(requestDataSubset, sub.realm, "unmodelled")

---------------------------------------------------------------------------
(* decodeURIComponent, delegateToParser, parseQueryParameters, parseRequest *)

HexChars == <<"0","1","2","3","4","5","6","7","8","9","A","B","C","D","E","F">>

IsHex(c) == \E n \in 1..16 : ToLowerChar(HexChars[n]) = ToLowerChar(c)

HexValue(c) ==
    (CHOOSE n \in 1..16 : ToLowerChar(HexChars[n]) = ToLowerChar(c)) - 1

\* The characters with codes 32..126 (code 96, which a TLA+ string cannot
\* hold, has a stand-in and is not modelled).
AsciiPrintable ==
    <<" ","!","\"","#","$","%","&","'","(",")","*","+",",","-",".","/",
      "0","1","2","3","4","5","6","7","8","9",":",";","<","=",">","?",
      "@","A","B","C","D","E","F","G","H","I","J","K","L","M","N","O",
      "P","Q","R","S","T","U","V","W","X","Y","Z","[","\\","]","^","_",
      "?","a","b","c","d","e","f","g","h","i","j","k","l","m","n","o",
      "p","q","r","s","t","u","v","w","x","y","z","{","|","}","~">>

\* The codes an escape may name here: the printable characters, tab, line
\* feed and carriage return.  (Escapes of other codes are not modelled.)
CodeModelled(n) == (n >= 32 /\ n <= 126 /\ n # 96) \/ n \in {9, 10, 13}

CharOfCode(n) ==
    IF n = 9 THEN "\t" ELSE IF n = 10 THEN "\n" ELSE IF n = 13 THEN "\r"
    ELSE AsciiPrintable[n - 31]

\* decodeURIComponent: [value, thrown].  A % that two hexadecimal digits do
\* not follow is a URIError.
RECURSIVE decodeURIComponent(_)
decodeURIComponent(s) ==
    IF s = <<>> THEN [value |-> <<>>, thrown |-> "none"]
    ELSE IF s[1] # "%"
    THEN LET rest == decodeURIComponent(Tail(s))
         IN  [value |-> <<s[1]>> \o rest.value, thrown |-> rest.thrown]
    ELSE IF Len(s) < 3 \/ ~IsHex(s[2]) \/ ~IsHex(s[3])
    THEN [value |-> <<>>, thrown |-> "URIError"]
    ELSE IF ~CodeModelled(16 * HexValue(s[2]) + HexValue(s[3]))
    THEN [value |-> <<>>, thrown |-> "unmodelled"]
    ELSE LET rest == decodeURIComponent(Tail0(s, 4))
         IN  [value |-> <<CharOfCode(16 * HexValue(s[2]) + HexValue(s[3]))>>
                         \o rest.value,
              thrown |-> rest.thrown]

\* The function names of PARSE_PARAM, in the order of the object literal.
ParseParamNames ==
    <<"parseInclude", "parseFields", "parsePage", "parseSort", "parseFilter",
      "parseFilterType", "parseFilterWithOr">>

\* PARSE_PARAM[functionName].test(query)
TestParseParam(functionName, query) ==
    CASE functionName = "parseInclude" -> TestParseInclude(query)
      [] functionName = "parseFields" -> TestParseFields(query)
      [] functionName = "parsePage" -> TestParsePage(query)
      [] functionName = "parseSort" -> TestParseSort(query)
      [] functionName = "parseFilter" -> TestParseFilter(query)
      [] functionName = "parseFilterType" -> TestParseFilterType(query)
      [] functionName = "parseFilterWithOr" -> TestParseFilterWithOr(query)

\* JsonApiQueryParser[functionName](query, _requestDataSubset)
CallParser(functionName, query, requestDataSubset, rlm) ==
    CASE functionName = "parseInclude" ->
            parseInclude(query, requestDataSubset, rlm)
      [] functionName = "parseFields" ->
            parseFields(query, requestDataSubset, rlm)
      [] functionName = "parsePage" ->
            parsePage(query, requestDataSubset, rlm)
      [] functionName = "parseSort" ->
            parseSort(query, requestDataSubset, rlm)
      [] functionName = "parseFilter" ->
            parseFilter(query, requestDataSubset, rlm)
      [] functionName = "parseFilterType" ->
            parseFilterType(query, requestDataSubset, rlm)
      [] functionName = "parseFilterWithOr" ->
            parseFilterWithOr(query, requestDataSubset, rlm)

\* The for-in loop of delegateToParser from the given names on: each parser
\* whose pattern matches is called on what the one before returned, and a
\* throw ends the loop.
RECURSIVE DelegateFrom(_, _, _)
DelegateFrom(names, query, acc) ==
    IF names = <<>> \/ acc.thrown # "none" THEN acc
    ELSE Only({DelegateFrom(Tail(names), query, next) :
                next \in {IF TestParseParam(Head(names), query)
                          THEN CallParser(Head(names), query,
                                          acc.data, acc.realm)
                          ELSE acc}})

\* delegateToParser: every pattern of PARSE_PARAM is tested, in the order of
\* the object literal, and every parser whose pattern matches is called.
delegateToParser(query, requestDataSubset, rlm) ==
    DelegateFrom(ParseParamNames, query, Done(requestDataSubset, rlm))

\* querySplit.forEach(this.delegateToParser, requestDataSubset)
RECURSIVE ForEachDelegate(_, _)
ForEachDelegate(querySplit, acc) ==
    IF querySplit = <<>> \/ acc.thrown # "none" THEN acc
    ELSE Only({ForEachDelegate(Tail(querySplit), next) :
                next \in {delegateToParser(Head(querySplit),
                                           acc.data, acc.realm)}})

\* A parseQueryParameters that decodes the query string before it splits it.
parseQueryParametersDecodeFirst(queryString, requestDataSubset, rlm) ==
    Only({
      IF decoded.thrown # "none"
      THEN Throw(requestDataSubset, rlm, decoded.thrown)
      ELSE ForEachDelegate(Split(decoded.value, "&"),
                           Done(requestDataSubset, rlm)) :
      decoded \in {decodeURIComponent(queryString)}})

\* parseQueryParameters: split on &, decode every part, then delegate each.
parseQueryParameters(queryString, requestDataSubset, rlm) ==
    Only({
      LET failed == {i \in 1..Len(decoded) : decoded[i].thrown # "none"}
      IN  IF failed # {}
          THEN Throw(requestDataSubset, rlm, decoded[Min(failed)].thrown)
          ELSE ForEachDelegate([i \in 1..Len(decoded) |-> decoded[i].value],
                               Done(requestDataSubset, rlm)) :
      decoded \in {[i \in 1..Len(Split(queryString, "&")) |->
                      decodeURIComponent(Split(queryString, "&")[i])]}})

\* parseRequest: a fresh requestData, the endpoint from urlSplit[0], and the
\* query from urlSplit[1] when that is truthy.
parseRequest(url, rlm) ==
    Only({
      IF endpoint.thrown # "none"
      THEN [data |-> endpoint.data, realm |-> rlm, thrown |-> endpoint.thrown]
      ELSE IF Truthy(ArrayGet(urlSplit, 1, rlm))
      THEN Only({[data |-> [endpoint.data EXCEPT !.queryData = query.data],
                  realm |-> query.realm, thrown |-> query.thrown] :
                 query \in {parseQueryParameters(ArrayGet(urlSplit, 1, rlm).v,
                                                 endpoint.data.queryData,
                                                 rlm)}})
      ELSE [data |-> endpoint.data, realm |-> rlm, thrown |-> "none"] :
      urlSplit \in {Split(url, "?")},
      endpoint \in {parseEndpoint(Split(url, "?")[1], FreshRequestData, rlm)}})

---------------------------------------------------------------------------
(* Calls.  history records each call with the input it was given and how   *)
(* that input was put together; ret records how the last call ended.       *)

Return(x) == [thrown |-> "none", value |-> x]

Raise(e) == [thrown |-> e, value |-> Undefined]

NoCall == Return(Undefined)

Last == history[Len(history)]

\* kw[key]=value
Bracketed(kw, key, value) == kw \o <<"[">> \o key \o <<"]", "=">> \o value

\* kw[key1][key2]=value
Bracketed2(kw, key1, key2, value) ==
    kw \o <<"[">> \o key1 \o <<"]", "[">> \o key2 \o <<"]", "=">> \o value

\* All sequences over S of a length from lo to hi.
SeqsOf(S, lo, hi) == UNION {[1..n -> S] : n \in lo..hi}

\* A new descriptor for a new series of calls (the tests' beforeEach).  What
\* earlier calls wrote on the built-in objects stays.
Reset ==
    /\ history # <<>>
    /\ requestData' = FreshRequestData
    /\ history' = <<>>
    /\ ret' = NoCall
    /\ UNCHANGED realm

---------------------------------------------------------------------------
(* trimSlashes applied to every short string, and applied again to its     *)
(* result.                                                                 *)

MaxTrimLen == 5

TrimAlphabet == {"/", "a", "b"}

TrimInputs == SeqsOf(TrimAlphabet, 0, MaxTrimLen)

InitTrim ==
    /\ requestData = FreshRequestData
    /\ realm = PristineRealm
    /\ history = <<>>
    /\ ret = NoCall

CallTrimSlashes ==
    /\ history = <<>>
    /\ \E x \in TrimInputs :
         /\ history' = <<[op |-> "trimSlashes", arg |-> x]>>
         /\ ret' = Return(Str(trimSlashes(x)))
    /\ UNCHANGED <<requestData, realm>>

CallTrimSlashesAgain ==
    /\ Len(history) = 1
    /\ Last.op = "trimSlashes"
    /\ history' = Append(history, [op |-> "trimSlashes", arg |-> ret.value.v])
    /\ ret' = Return(Str(trimSlashes(ret.value.v)))
    /\ UNCHANGED <<requestData, realm>>

NextTrim == CallTrimSlashes \/ CallTrimSlashesAgain \/ Reset

SpecTrim == InitTrim /\ [][NextTrim]_vars

\* The number of / at the start of x, and at the end of what then remains.
RECURSIVE LeadingSlashes(_)
LeadingSlashes(x) ==
    IF x # <<>> /\ Head(x) = "/" THEN 1 + LeadingSlashes(Tail(x)) ELSE 0

RECURSIVE TrailingSlashes(_)
TrailingSlashes(x) ==
    IF x # <<>> /\ x[Len(x)] = "/"
    THEN 1 + TrailingSlashes(SubSeq(x, 1, Len(x) - 1)) ELSE 0

\* x without its leading and trailing runs of /.
Stripped(x) ==
    IF LeadingSlashes(x) = Len(x) THEN <<>>
    ELSE SubSeq(x, LeadingSlashes(x) + 1, Len(x) - TrailingSlashes(x))

\* C6: trimSlashes(x) is x without its maximal leading and trailing runs of
\* "/", the characters between unchanged; the result neither starts nor ends
\* with "/"; and trimSlashes applied to the result returns the result.
C6_TrimSlashes ==
    (history # <<>> /\ Last.op = "trimSlashes") =>
        /\ ret.thrown = "none"
        /\ ret.value = Str(Stripped(history[1].arg))
        /\ ~SlashPatternTest(ret.value.v)
        /\ Len(history) = 2 => ret.value.v = history[2].arg

\* C6 witness: a string with slashes on both sides and one inside was
\* trimmed, and its result trimmed again.
C6_Witness ==
    /\ Len(history) = 2
    /\ Last.op = "trimSlashes"
    /\ history[1].arg = <<"/", "a", "/", "b">> \o <<"/">>
    /\ ret.value.v = <<"a", "/", "b">>

---------------------------------------------------------------------------
(* parseEndpoint and parseRequest on paths put together from segments.     *)

\* The numbers of slashes before and after a path.
Pads == {0, 1, 2}

MaxSegments == 5

kRelationShips == <<"R","e","l","a","t","i","o","n","S","h","i","p","s">>

\* What a path segment may be: a plain value, the word relationships in two
\* spellings, and nothing (two slashes in a row).
SegmentPool == {<<"a">>, krelationships, kRelationShips, <<>>}

\* The segments of a path whose slash-trimmed form is their join: the first
\* and the last are not empty, or the path is empty.
SegmentLists ==
    {s \in SeqsOf(SegmentPool, 1, MaxSegments) :
        s = << <<>> >> \/ (s[1] # <<>> /\ s[Len(s)] # <<>>)}

PathOf(lead, segs, trail) ==
    Repeat("/", lead) \o Join(segs, "/") \o Repeat("/", trail)

\* The object parseEndpoint returns is the one it was given.
SameObject == [t |-> "ref", v |-> <<>>]

\* A descriptor an earlier request left behind, as the tests reuse one.
StaleRequestData ==
    parseEndpoint(<<"b", "/", "7", "/">> \o krelationships \o <<"/", "c">>,
                  FreshRequestData, PristineRealm).data

InitEndpoint ==
    /\ requestData \in {FreshRequestData, StaleRequestData}
    /\ realm = PristineRealm
    /\ history = <<>>
    /\ ret = NoCall

\* parserClass.parseEndpoint(path, requestData)
DoParseEndpoint(path, in) ==
    \E r \in {parseEndpoint(path, requestData, realm)} :
        /\ requestData' = r.data
        /\ ret' = IF r.thrown = "none" THEN Return(SameObject)
                  ELSE Raise(r.thrown)
        /\ history' = Append(history,
              [op |-> "parseEndpoint", arg |-> path, in |-> in,
               before |-> requestData, realm |-> realm])
        /\ UNCHANGED realm

\* requestData = parserClass.parseRequest(url): the caller's variable is
\* assigned only when the call returns.
DoParseRequest(url, in) ==
    \E r \in {parseRequest(url, realm)} :
        /\ requestData' = IF r.thrown = "none" THEN r.data ELSE requestData
        /\ ret' = IF r.thrown = "none" THEN Return(SameObject)
                  ELSE Raise(r.thrown)
        /\ history' = Append(history,
              [op |-> "parseRequest", arg |-> url, in |-> in,
               before |-> requestData, realm |-> realm])
        /\ realm' = r.realm

CallParseEndpoint ==
    /\ history = <<>>
    /\ \E lead \in Pads, trail \in Pads, segs \in SegmentLists :
         DoParseEndpoint(PathOf(lead, segs, trail),
                         [lead |-> lead, segs |-> segs, trail |-> trail])

\* parseRequest with the same paths and no query.
CallParseRequestPath ==
    /\ history = <<>>
    /\ \E lead \in Pads, trail \in Pads, segs \in SegmentLists :
         DoParseRequest(PathOf(lead, segs, trail),
                        [lead |-> lead, segs |-> segs, trail |-> trail])

\* ?filter[__proto__][3]=x: a query whose operator name is __proto__.
QueryProto3 ==
    <<"?">> \o Bracketed2(kfilter, k__proto__, <<"3">>, <<"x">>)

\* parseRequest('a?filter[__proto__][3]=x')
CallParseRequestProto ==
    /\ history = <<>>
    /\ DoParseRequest(<<"a">> \o QueryProto3,
                      [lead |-> 0, segs |-> << <<"a">> >>, trail |-> 0])

NextEndpoint ==
    CallParseEndpoint \/ CallParseRequestPath \/ CallParseRequestProto \/ Reset

SpecEndpoint == InitEndpoint /\ [][NextEndpoint]_vars

\* The spellings of the word relationships among the segments.
IsRelationshipsWord(seg) == seg \in {krelationships, kRelationShips}

\* The last call was made with a path of these segments.
CalledWithPath(op) == history # <<>> /\ Last.op = op

\* The segments that are not empty: the path with every run of slashes
\* written as one slash.
Squeezed(segs) == SelectSeq(segs, LAMBDA seg : seg # <<>>)

\* C2: for a path type/id/relationships/rel of non-empty type, id and rel,
\* with any number of slashes before it, after it and in the place of each
\* of its slashes, parseEndpoint yields resourceType = type, identifier = id,
\* relationships = true and relationshipType = rel.  (Only the slashes
\* before and after the path are trimmed: a//5/relationships/c has the five
\* segments a, "", 5, relationships, c.)
C2_RelationshipPath ==
    (/\ CalledWithPath("parseEndpoint")
     /\ Len(Squeezed(Last.in.segs)) = 4
     /\ Squeezed(Last.in.segs)[3] = krelationships)
    => /\ ret.thrown = "none"
       /\ requestData.resourceType = Str(Squeezed(Last.in.segs)[1])
       /\ requestData.identifier = Str(Squeezed(Last.in.segs)[2])
       /\ requestData.relationships = TRUE
       /\ requestData.relationshipType = Str(Squeezed(Last.in.segs)[4])

\* C3: whenever the third segment is the word relationships in any letter
\* case and no non-empty fourth segment follows, parseEndpoint throws the
\* ReferenceError, and parseRequest throws it too and hands its caller no
\* descriptor.  (After a request that named the operator __proto__ and the
\* column 3, requestSplit[3] of a three-segment path is that request's
\* value, and nothing is thrown.)
C3_MissingRelationshipType ==
    (/\ history # <<>>
     /\ Last.op \in {"parseEndpoint", "parseRequest"}
     /\ Len(Last.in.segs) >= 3
     /\ IsRelationshipsWord(Last.in.segs[3])
     /\ (Len(Last.in.segs) = 3 \/ Last.in.segs[4] = <<>>))
    => /\ ret = Raise("ReferenceError")
       /\ Last.op = "parseRequest" => requestData = Last.before

\* C4: after parseEndpoint returns, relationships is true exactly when the
\* slash-trimmed path has at least three segments and the third is the word
\* relationships in any letter case.
C4_RelationshipsFlag ==
    (CalledWithPath("parseEndpoint") /\ ret.thrown = "none")
    => (requestData.relationships
          <=> (/\ Len(Last.in.segs) >= 3
               /\ IsRelationshipsWord(Last.in.segs[3])))

\* C4 witness: a returned call with the flag true for the mixed-case word.
C4_Witness ==
    /\ CalledWithPath("parseEndpoint")
    /\ ret.thrown = "none"
    /\ Len(Last.in.segs) = 4
    /\ Last.in.segs[3] = kRelationShips
    /\ requestData.relationships

\* C5: when the third segment is not the word relationships, identifier is
\* the second segment of a path of two segments or more and null otherwise,
\* relationshipType is the third segment of a path of exactly three segments
\* and null otherwise, and relationships is false.
C5_PlainPath ==
    (/\ CalledWithPath("parseEndpoint")
     /\ ~(Len(Last.in.segs) >= 3 /\ IsRelationshipsWord(Last.in.segs[3])))
    => /\ ret.thrown = "none"
       /\ requestData.identifier =
            (IF Len(Last.in.segs) >= 2 THEN Str(Last.in.segs[2]) ELSE Null)
       /\ requestData.relationshipType =
            (IF Len(Last.in.segs) = 3 THEN Str(Last.in.segs[3]) ELSE Null)
       /\ requestData.relationships = FALSE

\* C5 witness: a path of four plain segments parsed into a descriptor that
\* held a relationship type.
C5_Witness ==
    /\ CalledWithPath("parseEndpoint")
    /\ Last.in.segs = << <<"a">>, krelationships, <<"a">>, <<"a">> >>
    /\ Last.before = StaleRequestData
    /\ requestData.relationshipType = Null
    /\ requestData.identifier = Str(krelationships)

\* C19 as stated: after parseEndpoint returns, resourceType is the first
\* segment of the path and is not the empty string.
C19_ResourceTypeNeverEmpty ==
    (CalledWithPath("parseEndpoint") /\ ret.thrown = "none") =>
        /\ requestData.resourceType = Str(Last.in.segs[1])
        /\ requestData.resourceType # Str(<<>>)

\* C19: after parseEndpoint returns, resourceType is the first segment of
\* the path without its leading and trailing slashes; it is the empty
\* string exactly when the path is empty or holds slashes only.
C19_ResourceTypeFirstSegment ==
    (CalledWithPath("parseEndpoint") /\ ret.thrown = "none") =>
        /\ requestData.resourceType = Str(Last.in.segs[1])
        /\ (requestData.resourceType = Str(<<>>))
             <=> (Last.in.segs = << <<>> >>)

\* C19 witness: a path of slashes only has been parsed, and resourceType is
\* the empty string.
C19_Witness ==
    /\ CalledWithPath("parseEndpoint")
    /\ ret.thrown = "none"
    /\ Last.in.segs = << <<>> >>
    /\ Last.in.lead = 2
    /\ requestData.resourceType = Str(<<>>)

---------------------------------------------------------------------------
(* parseRequest on urls put together from a path and a query of fragments. *)

MaxFrags == 2

kinclude == <<"i","n","c","l","u","d","e">>
ksort == <<"s","o","r","t">>

\* The fragments the queries are made of.  One names the operator
\* __proto__ and the column 1, with the value include=z; one names the
\* column a of the plain filter as its first bracket; the last three match
\* no pattern of PARSE_PARAM: the empty fragment (of && or of a leading or
\* trailing &), x, and a % that starts no escape.
RequestFragments ==
    { kinclude \o <<"=", "a", ",", "b">>,
      ksort \o <<"=", "-", "a">>,
      Bracketed(kfields, <<"a">>, <<"b">>),
      Bracketed(kpage, <<"n">>, <<"1">>),
      Bracketed(kfilter, <<"a">>, <<"1">>),
      Bracketed2(kfilter, klike, <<"a">>, <<"b">>),
      kfilterOr \o <<"0", "]", "[", "a", "]", "=", "b">>,
      Bracketed2(kfilter, k__proto__, <<"1">>, kincludeEq \o <<"z">>),
      Bracketed2(kfilter, <<"a">>, <<"b">>, <<"2">>),
      <<>>,
      <<"x">>,
      <<"%">> }

RequestQueries ==
    {Join(fs, "&") : fs \in SeqsOf(RequestFragments, 1, MaxFrags)}

RequestPaths ==
    { <<"a">>,
      <<"/", "a", "/", "1", "/">>,
      <<"a", "/", "1", "/">> \o krelationships \o <<"/", "b">> }

InitRequest ==
    /\ requestData = FreshRequestData
    /\ realm = PristineRealm
    /\ history = <<>>
    /\ ret = NoCall

\* parseRequest(P)
CallParseRequestBare ==
    /\ history = <<>>
    /\ \E path \in RequestPaths :
         DoParseRequest(path,
                        [path |-> path, mark |-> FALSE, query |-> <<>>])

\* parseRequest(P?Q), Q empty or not
CallParseRequestQuery ==
    /\ history = <<>>
    /\ \E path \in RequestPaths, query \in RequestQueries \cup {<<>>} :
         DoParseRequest(path \o <<"?">> \o query,
                        [path |-> path, mark |-> TRUE, query |-> query])

NextRequest == CallParseRequestBare \/ CallParseRequestQuery \/ Reset

SpecRequest == InitRequest /\ [][NextRequest]_vars

---------------------------------------------------------------------------
(* delegateToParser on fragments of the families include, sort, fields,    *)
(* page and filter, one after the other on the same requestData.           *)

MaxCalls == 2

kINCLUDE == <<"I","N","C","L","U","D","E">>

\* Value lists, joined with commas in the fragment.
ListPool == { << <<"x">> >>, << <<"x">>, <<"y">> >>, << <<"y">>, <<"y">> >> }

\* A value holding an =, and one holding a line feed.
ValueWithEq == <<"x", "=", "y">>
ValueWithLF == <<"x", "\n", "y">>

KeyPool == { <<"a">>, <<"b">>, <<"a", "=", "b">>, kconstructor, k__proto__ }

PlainKeys == { <<"a">>, <<"b">> }

Fragment(family, key, vals, text) ==
    [family |-> family, key |-> key, vals |-> vals, text |-> text]

IncludeFragments ==
    {Fragment("include", <<>>, vals, kinclude \o <<"=">> \o Join(vals, ","))
        : vals \in ListPool \cup { <<ValueWithEq>> }}
    \cup {Fragment("include", <<>>, << <<"x">> >>, kINCLUDE \o <<"=", "x">>)}

SortFragments ==
    {Fragment("sort", <<>>, vals, ksort \o <<"=">> \o Join(vals, ","))
        : vals \in ListPool}

FieldsFragments ==
    {Fragment("fields", key, << <<"x">>, <<"y">> >>,
              Bracketed(kfields, key, <<"x", ",", "y">>)) : key \in KeyPool}
    \cup {Fragment("fields", <<"a">>, << <<"y">> >>,
                   Bracketed(kfields, <<"a">>, <<"y">>))}

PageFragments ==
    {Fragment("page", key, << <<"x", ",", "y">> >>,
              Bracketed(kpage, key, <<"x", ",", "y">>)) : key \in KeyPool}
    \cup {Fragment("page", <<"a">>, <<value>>,
                   Bracketed(kpage, <<"a">>, value))
            : value \in {<<"1">>, ValueWithLF}}

FilterFragments ==
    {Fragment("filter", key, << <<"x">> >>,
              Bracketed(kfilter, key, <<"x">>)) : key \in KeyPool}
    \cup {Fragment("filter", <<"a">>, <<value>>,
                   Bracketed(kfilter, <<"a">>, value))
            : value \in {<<"y">>, ValueWithLF}}

\* filter[a][b]=x and filter[a][like]=x: a second bracket pair after the
\* first; and filter[a]=b][c]=d, where the second pair stands in the value.
TwoPairFragments ==
    {Fragment("twopair", <<"a">>, << <<"x">> >>,
              Bracketed2(kfilter, <<"a">>, key2, <<"x">>))
        : key2 \in {<<"b">>, klike}}
    \cup {Fragment("twopair", <<"a">>, << <<"b", "]", "[", "c", "]", "=", "d">> >>,
                   Bracketed(kfilter, <<"a">>,
                             <<"b", "]", "[", "c", "]", "=", "d">>))}

FragmentPool ==
    IncludeFragments \cup SortFragments \cup FieldsFragments
        \cup PageFragments \cup FilterFragments \cup TwoPairFragments

InitFragments ==
    /\ requestData = FreshRequestData
    /\ realm = PristineRealm
    /\ history = <<>>
    /\ ret = NoCall

\* parserClass.delegateToParser.call(requestData.queryData, fragment): the
\* forEach of parseQueryParameters, one fragment at a time.
CallDelegateToParser ==
    /\ Len(history) < MaxCalls
    /\ \E f \in FragmentPool :
         \E r \in {delegateToParser(f.text, requestData.queryData, realm)} :
             /\ requestData' = [requestData EXCEPT !.queryData = r.data]
             /\ realm' = r.realm
             /\ ret' = IF r.thrown = "none" THEN Return(Undefined)
                       ELSE Raise(r.thrown)
             /\ history' = Append(history,
                   [op |-> "delegateToParser", arg |-> f.text, in |-> f,
                    before |-> requestData, realm |-> realm])

NextFragments == CallDelegateToParser \/ Reset

SpecFragments == InitFragments /\ [][NextFragments]_vars

\* The last call delegated a fragment of this family.
Delegated(family) ==
    /\ history # <<>>
    /\ Last.op = "delegateToParser"
    /\ Last.in.family = family

\* The calls so far that delegated a fragment of this family for this key.
CallsFor(family, key) ==
    {i \in 1..Len(history) :
        /\ history[i].op = "delegateToParser"
        /\ history[i].in.family = family
        /\ history[i].in.key = key}

\* The value lists of those calls, one after the other.
ConcatVals(family, key) ==
    LET F[i \in 0..Len(history)] ==
            IF i = 0 THEN <<>>
            ELSE IF i \in CallsFor(family, key)
                 THEN F[i - 1] \o history[i].in.vals
                 ELSE F[i - 1]
    IN  F[Len(history)]

Max(S) == CHOOSE i \in S : \A j \in S : j <= i

NoEq(vals) == \A i \in 1..Len(vals) : \A j \in 1..Len(vals[i]) : vals[i][j] # "="

\* C7: after an include (sort) fragment, include (sort) is what that
\* fragment alone yields on an empty queryData, whatever earlier fragments
\* put there: its comma-separated values when they hold no =; and the other
\* of the two lists is as it was.
C7_IncludeSortReplace ==
    /\ Delegated("include") =>
         /\ ret.thrown = "none"
         /\ requestData.queryData.include =
              delegateToParser(Last.arg, EmptyQueryData, Last.realm).data.include
         /\ NoEq(Last.in.vals) => requestData.queryData.include = Last.in.vals
         /\ requestData.queryData.sort = Last.before.queryData.sort
    /\ Delegated("sort") =>
         /\ ret.thrown = "none"
         /\ requestData.queryData.sort = Last.in.vals
         /\ requestData.queryData.include = Last.before.queryData.include

\* C7 witness: include=x,y, then include=y,y on the same descriptor, which
\* then holds y, y.
C7_Witness ==
    /\ Len(history) = 2
    /\ Delegated("include")
    /\ history[1].in.family = "include"
    /\ history[1].in.vals = << <<"x">>, <<"y">> >>
    /\ Last.in.vals = << <<"y">>, <<"y">> >>
    /\ requestData.queryData.include = << <<"y">>, <<"y">> >>

\* C20: after a fragment include=V (sort=V), include (sort) is the whole of
\* V, everything after the first =, split on the commas in order and with
\* duplicates, also when V holds an =.
C20_WholeValue ==
    /\ Delegated("include") =>
         /\ ret.thrown = "none"
         /\ requestData.queryData.include = Last.in.vals
    /\ Delegated("sort") =>
         /\ ret.thrown = "none"
         /\ requestData.queryData.sort = Last.in.vals

\* The parsers delegateToParser invokes for a fragment: those whose pattern
\* accepts it.
ParsersInvoked(query) ==
    {i \in 1..Len(ParseParamNames) : TestParseParam(ParseParamNames[i], query)}

\* C22: the seven patterns are mutually exclusive: for every fragment,
\* delegateToParser invokes at most one of the seven parsers.
C22_AtMostOneParser ==
    (history # <<>> /\ Last.op = "delegateToParser") =>
        Cardinality(ParsersInvoked(Last.arg)) <= 1

\* C8: after any sequence of fields[name]=... fragments, fields[name] is the
\* concatenation, in fragment order, of the comma-split value lists of the
\* fragments for that name, and a name no fragment used has no list.
C8_FieldsAppend ==
    Delegated("fields") =>
        /\ ret.thrown = "none"
        /\ \A key \in KeyPool :
             IF CallsFor("fields", key) = {}
             THEN ~Has(requestData.queryData.fields, key)
             ELSE Get(requestData.queryData.fields, key, realm)
                    = List(ConcatVals("fields", key))

\* C9: after any sequence of page[key]=value fragments, page[key] is the raw
\* value, a string, of the last fragment for that key, and a key no fragment
\* used has no entry.
C9_PageLastWins ==
    Delegated("page") =>
        /\ ret.thrown = "none"
        /\ \A key \in KeyPool :
             IF CallsFor("page", key) = {}
             THEN ~Has(requestData.queryData.page, key)
             ELSE Get(requestData.queryData.page, key, realm)
                    = Str(history[Max(CallsFor("page", key))].in.vals[1])

\* C10: a fragment filter[col]=value whose col holds no ] sets filter[col]
\* to the string value, over what an earlier one put there; a fragment with
\* a second bracket pair after the first is not taken for a plain filter and
\* leaves the equality entries as they were.
C10_PlainFilter ==
    /\ Delegated("filter") =>
         /\ ret.thrown = "none"
         /\ Get(requestData.queryData.filter, Last.in.key, realm)
              = Str(Last.in.vals[1])
    /\ Delegated("twopair") =>
         /\ ~TestParseFilter(Last.arg)
         /\ \A key \in KeyPool :
              Get(requestData.queryData.filter, key, realm)
                = Get(Last.before.queryData.filter, key, Last.realm)

---------------------------------------------------------------------------
(* delegateToParser on filter fragments: plain, with an operator, with a   *)
(* first bracket that names no operator, and of an OR group.               *)

\* A fragment with what it was put together from: index is the OR index
\* (-1 outside an OR group), op the first bracket of two (<<>> when there is
\* one bracket), key the last bracket.
FilterFragment(family, index, op, key, value, text) ==
    [family |-> family, index |-> index, op |-> op, key |-> key,
     vals |-> <<value>>, text |-> text]

\* plain:    filter[a]=x, filter[rate]=5, and filter[like]=y, whose column
\*           is an operator name;
\* operator: filter[op][col]=value with op one of the six operator names,
\*           the column rate among them;
\* unknown:  filter[op][col]=value with op a, eq or __proto__;
\* excluded: filter[rate][x]=1 and filter[or][0][rate][x]=1, the first
\*           bracket (after the OR index) starting with r;
\* columnfirst: filter[b][lt]=y, the column before the operator;
\* or:       filter[or][index][col]=value and filter[or][index][op][col]=value,
\*           the column being a, an operator name or the word or.
FilterPool ==
    { FilterFragment("plain", -1, <<>>, k, v, Bracketed(kfilter, k, v)) :
        <<k, v>> \in { <<(<<"a">>), (<<"x">>)>>, <<klike, (<<"y">>)>>,
                       <<(<<"r", "a", "t", "e">>), (<<"5">>)>> } }
    \cup
    { FilterFragment("operator", -1, o, k, v, Bracketed2(kfilter, o, k, v)) :
        <<o, k, v>> \in { <<klike, (<<"a">>), (<<"x">>)>>,
                          <<kgt, (<<"a">>), (<<"y">>)>>,
                          <<knot, (<<"b">>), (<<"x">>)>>,
                          <<klike, (<<"a">>), ValueWithLF>>,
                          <<klike, k__proto__, (<<"x">>)>>,
                          <<kgt, (<<"r", "a", "t", "e">>), (<<"1">>)>> } }
    \cup
    { FilterFragment("unknown", -1, o, k, v, Bracketed2(kfilter, o, k, v)) :
        <<o, k, v>> \in { <<(<<"a">>), (<<"b">>), (<<"x">>)>>,
                          <<(<<"e", "q">>), (<<"a">>), (<<"x">>)>>,
                          <<k__proto__, (<<"a">>), (<<"x">>)>> } }
    \cup
    { FilterFragment("excluded", -1, <<"r", "a", "t", "e">>, <<"x">>, <<"1">>,
                     Bracketed2(kfilter, <<"r", "a", "t", "e">>, <<"x">>, <<"1">>)),
      FilterFragment("excluded", 0, <<"r", "a", "t", "e">>, <<"x">>, <<"1">>,
                     kfilterOr \o <<"0", "]">>
                     \o Bracketed2(<<>>, <<"r", "a", "t", "e">>, <<"x">>, <<"1">>)) }
    \cup
    { FilterFragment("columnfirst", -1, <<"b">>, klt, <<"y">>,
                     Bracketed2(kfilter, <<"b">>, klt, <<"y">>)) }
    \cup
    { FilterFragment("or", i, o, k, v,
                     kfilterOr \o DecimalString(i) \o <<"]">>
                     \o (IF o = <<>> THEN Bracketed(<<>>, k, v)
                         ELSE Bracketed2(<<>>, o, k, v))) :
        <<i, o, k, v>> \in { <<0, (<<>>), (<<"a">>), (<<"x">>)>>,
                             <<0, kgt, (<<"a">>), (<<"y">>)>>,
                             <<1, (<<>>), (<<"a">>), (<<"x">>)>>,
                             <<0, (<<>>), klike, (<<"x">>)>>,
                             <<0, klike, (<<"a">>), (<<"y">>)>>,
                             <<0, (<<>>), kor, (<<"x">>)>>,
                             <<0, kgt, (<<"r", "a", "t", "e">>), (<<"1">>)>> } }

InitFilters ==
    /\ requestData = FreshRequestData
    /\ realm = PristineRealm
    /\ history = <<>>
    /\ ret = NoCall

\* parserClass.delegateToParser.call(requestData.queryData, fragment)
CallDelegateFilter ==
    /\ Len(history) < MaxCalls
    /\ \E f \in FilterPool :
         \E r \in {delegateToParser(f.text, requestData.queryData, realm)} :
             /\ requestData' = [requestData EXCEPT !.queryData = r.data]
             /\ realm' = r.realm
             /\ ret' = IF r.thrown = "none" THEN Return(Undefined)
                       ELSE Raise(r.thrown)
             /\ history' = Append(history,
                   [op |-> "delegateToParser", arg |-> f.text, in |-> f,
                    before |-> requestData, realm |-> realm])

NextFilters == CallDelegateFilter \/ Reset

SpecFilters == InitFilters /\ [][NextFilters]_vars

\* C11: a fragment filter[op][col]=value with op one of like, not, lt, lte,
\* gt, gte sets filter[op][col] to the string value and leaves the rest of
\* the descriptor (the equality entries, the other five operator maps and
\* filter.or) as it was.
C11_OperatorFilter ==
    Delegated("operator") =>
        /\ ret.thrown = "none"
        /\ Last.before.queryData.filter[Last.in.op].t = "obj"
        /\ Has(requestData.queryData.filter[Last.in.op].v, Last.in.key)
        /\ requestData.queryData =
             [Last.before.queryData EXCEPT
                !.filter[Last.in.op] =
                    Obj(Put(Last.before.queryData.filter[Last.in.op].v,
                            Last.in.key, Str(Last.in.vals[1])))]

\* The calls so far were all of OR fragments.
OnlyOrFragments ==
    \A i \in 1..Len(history) :
        history[i].op = "delegateToParser" /\ history[i].in.family = "or"

\* The last call that named this index, first bracket and column.
LastOrCallFor(c) ==
    \A j \in 1..Len(history) :
        (/\ history[j].in.index = c.in.index
         /\ history[j].in.op = c.in.op
         /\ history[j].in.key = c.in.key) => history[j].in.vals = c.in.vals

\* What element e of filter.or holds for the first bracket op and column key.
OrEntry(e, op, key) ==
    IF e.t # "obj" THEN Undefined
    ELSE IF op = <<>>
         THEN (IF Has(e.v, key) THEN e.v[key] ELSE Undefined)
         ELSE IF Has(e.v, op) /\ e.v[op].t = "obj" /\ Has(e.v[op].v, key)
              THEN e.v[op].v[key] ELSE Undefined

\* C12: after a sequence of filter[or][index]<rest> fragments on one
\* descriptor, every fragment's value is found in filter.or at the index it
\* names (fragments with the same index accumulate in one element), no
\* call raised, and the last call left the elements at other indexes as
\* they were.
C12_OrAccumulates ==
    (history # <<>> /\ OnlyOrFragments) =>
        /\ ret.thrown = "none"
        /\ requestData.queryData.filter[kor].t = "arr"
        /\ \A i \in 1..Len(history) :
              LastOrCallFor(history[i]) =>
                  /\ Has(requestData.queryData.filter[kor].v,
                         history[i].in.index)
                  /\ OrEntry(requestData.queryData.filter[kor].v
                                 [history[i].in.index],
                             history[i].in.op, history[i].in.key)
                       = Str(history[i].in.vals[1])
        /\ \A j \in (DOMAIN requestData.queryData.filter[kor].v
                     \cup DOMAIN Last.before.queryData.filter[kor].v)
                    \ {Last.in.index} :
              /\ Has(requestData.queryData.filter[kor].v, j)
              /\ Has(Last.before.queryData.filter[kor].v, j)
              /\ requestData.queryData.filter[kor].v[j]
                   = Last.before.queryData.filter[kor].v[j]

\* A filter descriptor with the six operator keys, each holding a mapping.
SixOperatorMaps(m) ==
    \A o \in OperatorSet : Has(m, o) /\ m[o].t = "obj"

\* C13: in every descriptor reached by parsing fragments, the top-level
\* filter and every populated element of filter.or have the six operator
\* keys like, not, lt, lte, gt, gte, each holding a mapping and never a
\* string, and no element of filter.or has an or key.
C13_FilterShape ==
    /\ SixOperatorMaps(requestData.queryData.filter)
    /\ requestData.queryData.filter[kor].t = "arr"
    /\ \A j \in DOMAIN requestData.queryData.filter[kor].v :
          /\ requestData.queryData.filter[kor].v[j].t = "obj"
          /\ SixOperatorMaps(requestData.queryData.filter[kor].v[j].v)
          /\ ~Has(requestData.queryData.filter[kor].v[j].v, kor)

\* C15: a fragment filter[op][col]=value whose op is not one of the six
\* operator names is ignored in every reachable state: the descriptor is
\* left as it was and no error is raised.
C15_UnknownOperatorIgnored ==
    Delegated("unknown") =>
        /\ ret.thrown = "none"
        /\ requestData = Last.before

\* C18: an operator filter written with the column first,
\* filter[col][op]=value with op one of the six operator names, is applied:
\* afterwards filter[op][col] is the value, and so is filter[col].
C18_ColumnFirstApplied ==
    Delegated("columnfirst") =>
        /\ ret.thrown = "none"
        /\ requestData.queryData.filter[Last.in.key].t = "obj"
        /\ Has(requestData.queryData.filter[Last.in.key].v, Last.in.op)
        /\ requestData.queryData.filter[Last.in.key].v[Last.in.op]
             = Str(Last.in.vals[1])
        /\ Has(requestData.queryData.filter, Last.in.op)
        /\ requestData.queryData.filter[Last.in.op] = Str(Last.in.vals[1])

\* The name starts with o or r, in either case.
StartsWithOR(name) == name # <<>> /\ ToLowerChar(name[1]) \in {"o", "r"}

\* The last call was given an operator fragment, at the top level or in an
\* OR group, whose operator is one of the six and whose column starts with
\* o or r.
ColumnStartsWithOR ==
    /\ history # <<>>
    /\ Last.in.family \in {"operator", "or"}
    /\ Last.in.op \in OperatorSet
    /\ StartsWithOR(Last.in.key)

FilterFrame ==
    (DOMAIN requestData.queryData.filter
        \cup DOMAIN Last.before.queryData.filter)
    \ { IF Last.in.family = "or" \/ Last.in.index >= 0 THEN kor
        ELSE IF Last.in.op = <<>> THEN Last.in.key
        ELSE Last.in.op }

\* The last call left what it was not to touch as it was: include, sort,
\* fields, page, the other entries of the filter, and for an OR fragment the
\* other elements of filter.or.
OwnPartOnly ==
    /\ requestData.queryData.include = Last.before.queryData.include
    /\ requestData.queryData.sort = Last.before.queryData.sort
    /\ requestData.queryData.fields = Last.before.queryData.fields
    /\ requestData.queryData.page = Last.before.queryData.page
    /\ \A k \in FilterFrame :
          /\ Has(requestData.queryData.filter, k)
          /\ Has(Last.before.queryData.filter, k)
          /\ requestData.queryData.filter[k] = Last.before.queryData.filter[k]
    /\ (Last.in.index >= 0 /\ requestData.queryData.filter[kor].t = "arr") =>
          \A j \in DOMAIN Last.before.queryData.filter[kor].v
                   \ {Last.in.index} :
              /\ Has(requestData.queryData.filter[kor].v, j)
              /\ requestData.queryData.filter[kor].v[j]
                   = Last.before.queryData.filter[kor].v[j]

\* C25: a filter fragment changes only its own part of the descriptor:
\* parseFilter and parseFilterType the one entry of the top-level filter
\* they name, parseFilterWithOr the element of filter.or at its index; the
\* rest of the descriptor stays as it was, and so does what page and fields
\* read for the column of the fragment (an entry of their own, or one of
\* the prototype all objects share).
C25_OwnPartOnly ==
    (history # <<>> /\ Last.op = "delegateToParser") =>
        /\ OwnPartOnly
        /\ Get(requestData.queryData.page, Last.in.key, realm)
             = Get(Last.before.queryData.page, Last.in.key, Last.realm)
        /\ Get(requestData.queryData.fields, Last.in.key, realm)
             = Get(Last.before.queryData.fields, Last.in.key, Last.realm)

---------------------------------------------------------------------------
(* parseRequest: how a call can end, and what it keeps between calls.      *)

\* C14: parseRequest either returns a descriptor or raises the error of the
\* missing relationship type (a ReferenceError); no query string makes it
\* end with another error.
C14_OnlyRelationshipError ==
    (history # <<>> /\ Last.op = "parseRequest") =>
        ret.thrown \in {"none", "ReferenceError"}

\* The fragment, as it stands in the query string, matches a pattern of
\* PARSE_PARAM.
MatchesAGrammar(f) ==
    \E i \in 1..Len(ParseParamNames) : TestParseParam(ParseParamNames[i], f)

\* The query of the last call without the fragments that match no pattern.
WithoutUnmatched ==
    Join(SelectSeq(Split(Last.in.query, "&"), MatchesAGrammar), "&")

\* C16: fragments that match none of the seven patterns, the empty fragment
\* included, change nothing: parseQueryParameters ends for a query string as
\* it ends for the same query string without those fragments.
C16_UnmatchedFragmentsDropped ==
    (/\ history # <<>>
     /\ Last.op = "parseRequest"
     /\ Last.in.mark
     /\ Last.in.query # <<>>) =>
        \E r \in {parseQueryParameters(WithoutUnmatched, EmptyQueryData,
                                       Last.realm)} :
            /\ ret.thrown = r.thrown
            /\ ret.thrown = "none" => requestData.queryData = r.data
            /\ realm = r.realm

\* C17: parseRequest keeps no state between calls: whatever calls came
\* before, a call for a url ends as the first call of a program for that url
\* ends, with a structurally equal descriptor.
C17_NoStateBetweenCalls ==
    (history # <<>> /\ Last.op = "parseRequest") =>
        \E first \in {parseRequest(Last.arg, PristineRealm)} :
            /\ ret.thrown = first.thrown
            /\ ret.thrown = "none" => requestData = first.data

---------------------------------------------------------------------------
(* parseQueryParameters on query strings with percent-encoded characters.  *)

MaxParts == 2

\* Fragments as they stand in a url, each with the list of values it stands
\* for: %2C and %2c are a comma, %26 is an &, %31 is the digit 1.
QueryPool ==
    { Fragment("include", <<>>, << <<"a">>, <<"b">> >>,
               kincludeEq \o <<"a", "%", "2", "C", "b">>),
      Fragment("include", <<>>, << <<"x">> >>, kincludeEq \o <<"x">>),
      Fragment("sort", <<>>, << <<"A">>, <<"b">> >>,
               ksortEq \o <<"A", "%", "2", "c", "b">>),
      Fragment("sort", <<>>, << <<"-", "a">>, <<"b">> >>,
               ksortEq \o <<"-", "a", ",", "b">>),
      Fragment("fields", <<"a">>, << <<"x">>, <<"y">> >>,
               Bracketed(kfields, <<"a">>, <<"x", "%", "2", "C", "y">>)),
      Fragment("fields", <<"a">>, << <<"z">> >>,
               Bracketed(kfields, <<"a">>, <<"z">>)),
      Fragment("page", <<"n">>, << <<"1">> >>,
               Bracketed(kpage, <<"n">>, <<"%", "3", "1">>)),
      Fragment("page", <<"n">>, << <<"2">> >>,
               Bracketed(kpage, <<"n">>, <<"2">>)),
      Fragment("filter", <<"a">>, << <<"x", "&">> \o ksortEq \o <<"b">> >>,
               Bracketed(kfilter, <<"a">>,
                         <<"x", "%", "2", "6">> \o ksortEq \o <<"b">>)),
      Fragment("filter", <<"b">>, << <<"t", "r", "u", "e">> >>,
               Bracketed(kfilter, <<"b">>, <<"t", "r", "u", "e">>)),
      Fragment("like", <<"a">>, << <<"1">> >>,
               Bracketed2(kfilter, klike, <<"a">>, <<"%", "3", "1">>)) }

\* parserClass.parseQueryParameters(query, requestData.queryData), the query
\* being the fragments joined by &.
CallParseQueryParameters ==
    /\ history = <<>>
    /\ \E parts \in SeqsOf(QueryPool, 1, MaxParts) :
         \E query \in {Join([i \in 1..Len(parts) |-> parts[i].text], "&")} :
           \E r \in {parseQueryParameters(query, requestData.queryData, realm)} :
             /\ requestData' = [requestData EXCEPT !.queryData = r.data]
             /\ realm' = r.realm
             /\ ret' = IF r.thrown = "none" THEN Return(SameObject)
                       ELSE Raise(r.thrown)
             /\ history' = Append(history,
                   [op |-> "parseQueryParameters", arg |-> query, in |-> parts,
                    before |-> requestData, realm |-> realm])

NextQuery == CallParseQueryParameters \/ Reset

SpecQuery == InitRequest /\ [][NextQuery]_vars

\* The fragments of the last call of this family and key.
PartsFor(family, key) ==
    {i \in 1..Len(Last.in) :
        Last.in[i].family = family /\ Last.in[i].key = key}

\* The values of the last of them, none when there is none.
LastVals(family, key) ==
    IF PartsFor(family, key) = {} THEN <<>>
    ELSE Last.in[Max(PartsFor(family, key))].vals

\* The values of all of them, one list after the other.
AllVals(family, key) ==
    LET F[i \in 0..Len(Last.in)] ==
            IF i = 0 THEN <<>>
            ELSE IF i \in PartsFor(family, key)
                 THEN F[i - 1] \o Last.in[i].vals
                 ELSE F[i - 1]
    IN  F[Len(Last.in)]

\* What a map holds for a key as its own entry.
Own(m, key) == IF Has(m, key) THEN m[key] ELSE Undefined

\* The single decoded value of the last fragment of this family and key, as
\* a string, or undefined when there is no such fragment.
LastString(family, key) ==
    IF PartsFor(family, key) = {} THEN Undefined
    ELSE Str(LastVals(family, key)[1])

---------------------------------------------------------------------------
(* deepMerge called on small objects.                                      *)

\* The values at the leaves: a string, an array of strings, and null.
MergeLeaves == { Str(<<"x">>), List(<< <<"y">> >>), Null }

\* The objects with some of these keys and values of this set.
ObjectsOver(keys, values) ==
    {Obj(m) : m \in UNION {[ks -> values] : ks \in SUBSET keys}}

\* The targets and sources: objects with the keys a and like, holding
\* leaves and objects with the key a.
MergeObjects ==
    ObjectsOver({<<"a">>, klike},
                MergeLeaves \cup ObjectsOver({<<"a">>}, MergeLeaves))

\* JsonApiQueryParser.deepMerge(target, source)
CallDeepMerge ==
    /\ history = <<>>
    /\ \E target \in MergeObjects, source \in MergeObjects :
         \E r \in {deepMerge(target, source.v, realm)} :
             /\ requestData' = r.value
             /\ ret' = IF r.thrown = "none" THEN Return(SameObject)
                       ELSE Raise(r.thrown)
             /\ history' = Append(history,
                   [op |-> "deepMerge", arg |-> source,
                    in |-> [target |-> target, source |-> source],
                    before |-> target, realm |-> realm])
             /\ UNCHANGED realm

NextMerge == CallDeepMerge \/ Reset

SpecMerge == InitRequest /\ [][NextMerge]_vars

\* What the merge of the mapping s into the mapping t is to be: a mapping of
\* s is merged into the mapping t holds for the key (an empty one when t
\* holds none; what t holds stays when it is no mapping and there is nothing
\* to merge), any other value of s replaces what t holds, and the keys of t
\* that s has not keep their values.
RECURSIVE Merged(_, _)
Merged(t, s) ==
    [k \in DOMAIN t \cup DOMAIN s |->
        IF k \notin DOMAIN s THEN t[k]
        ELSE IF s[k].t # "obj" THEN s[k]
        ELSE IF k \in DOMAIN t /\ t[k].t = "obj"
             THEN Obj(Merged(t[k].v, s[k].v))
        ELSE IF k \in DOMAIN t /\ s[k].v = EmptyMap THEN t[k]
        ELSE Obj(Merged(EmptyMap, s[k].v))]

\* C23: deepMerge(target, source) returns target with every mapping of
\* source merged into it key by key, every other value of source written
\* over what target held, and every key of target that source has not, at
\* any level, as it was.
C23_DeepMerge ==
    (history # <<>> /\ Last.op = "deepMerge" /\ ret.thrown # "unmodelled") =>
        /\ ret.thrown = "none"
        /\ requestData = Obj(Merged(Last.in.target.v, Last.in.source.v))

=============================================================================
